---------------------------- MODULE Spec2Model ----------------------------
(***************************************************************************)
(* Model of run_benchmark.py: the Check_set command (leakage check between *)
(* a training list and a benchmark list) and the Compare command (scoring, *)
(* visualization requests, ranking and capped model selection).            *)
(*                                                                         *)
(* A text line is the sequence of its whitespace-delimited tokens (what    *)
(* str.split() returns); a token is a sequence of one-character strings.   *)
(* A file name is the sequence of its dot-separated parts (what            *)
(* name.split(".") returns).                                               *)
(***************************************************************************)
EXTENDS Integers, Naturals, Sequences, FiniteSets, TLC

VARIABLES
    pc,               \* "ready" | "done" | "error": position of the invoked command
    error,            \* "none" or the name of the exception that ended the command
    \* ---- Check_set ----
    training_set,     \* raw lines of the --training_set file
    dataset,          \* raw lines of the --dataset file
    training_chains,  \* normalized training identifiers
    testing_chains,   \* normalized testing identifiers
    repeated_chains,  \* identifiers found in both sets
    report,           \* "none" | "overlap" | "no_overlap": which report was printed
    printed_count,    \* the count printed in the overlap report
    printed_repeated, \* the overlapping identifiers printed, in order
    printed_new_set,  \* the "New benchmarking set" printed, in order
    \* ---- Compare ----
    listing,          \* os.listdir(path_to_models), in listing order
    scores,           \* get_cath.score(...)[0][0] for every csv file of the listing
    path_to_evoef,    \* TRUE iff --path_to_evoef was supplied
    include,          \* [given, lines]: the --include file
    pdbs,             \* [given, dict]: the --pdbs file, parsed
    torsions,         \* the --torsions flag
    accuracy,         \* the accuracy list
    calls,            \* the requests issued to the visualization module, in order
    model,            \* the per-model loop variable (<<>> while unbound)
    filtered_models,  \* the prediction data selected for comparison
    filtered_labels   \* the labels selected for comparison

check_vars == <<training_set, dataset, training_chains, testing_chains,
                repeated_chains, report, printed_count, printed_repeated,
                printed_new_set>>
compare_vars == <<listing, scores, path_to_evoef, include, pdbs, torsions,
                  accuracy, calls, model, filtered_models, filtered_labels>>
vars == <<pc, error, check_vars, compare_vars>>

(***************************************************************************)
(* Generic sequence helpers (Python list operations).                      *)
(***************************************************************************)
Range(s) == {s[i] : i \in 1..Len(s)}

\* x in s
In(x, s) == \E i \in 1..Len(s) : s[i] = x

\* s[k:]  (0-based k >= 0)
Drop(s, k) == IF k >= Len(s) THEN <<>> ELSE SubSeq(s, k + 1, Len(s))

\* variant of LastN: s[:k], the first elements instead of the last
FirstN(s, k) == IF Len(s) <= k THEN s ELSE SubSeq(s, 1, k)

\* s[-k:]  (k > 0): the last min(k, len(s)) elements
LastN(s, k) == IF Len(s) <= k THEN s ELSE SubSeq(s, Len(s) - k + 1, Len(s))

\* all sequences over S of length at most n
SeqsUpTo(S, n) == UNION {[1..k -> S] : k \in 0..n}

(***************************************************************************)
(* Check_set                                                               *)
(***************************************************************************)
\* length of a ChainID (PDB code + chain letter)
IdLen == 5

\* str.upper() on one character of the modelled alphabet
UpperChar(c) ==
    CASE c = "a" -> "A"
      [] c = "b" -> "B"
      [] c = "c" -> "C"
      [] c = "d" -> "D"
      [] c = "i" -> "I"
      [] OTHER   -> c

\* str.upper()
Upper(tok) == [i \in 1..Len(tok) |-> UpperChar(tok[i])]

\* str.strip("\n"): removes leading and trailing newline characters
RECURSIVE StripNewline(_)
StripNewline(tok) ==
    IF tok = <<>> THEN tok
    ELSE IF Head(tok) = "\n" THEN StripNewline(Tail(tok))
    ELSE IF tok[Len(tok)] = "\n" THEN StripNewline(SubSeq(tok, 1, Len(tok) - 1))
    ELSE tok

\* x.split()[0].strip("\n").upper() for one line x (needs a first token)
NormalizeLine(line) == Upper(StripNewline(line[1]))

\* x.split()[0] raises IndexError on a line without any token
HasBlankLine(lines) == \E i \in 1..Len(lines) : lines[i] = <<>>

\* [x.split()[0].strip("\n").upper() for x in file.readlines()]
NormalizeLines(lines) == [i \in 1..Len(lines) |-> NormalizeLine(lines[i])]

\* variant of DropPiscesHeader: the first line is dropped without the test
DropFirstAlways(chains) == Drop(chains, 1)

\* "check for pisces": the header test applied to the training list
DropPiscesHeader(chains) ==
    IF Len(chains[1]) # IdLen THEN Drop(chains, 1) ELSE chains

\* the training list as read by check_set
ReadTrainingSet(lines) == DropPiscesHeader(NormalizeLines(lines))

\* the benchmark list as read by check_set
ReadDataset(lines) == NormalizeLines(lines)

\* variant of RepeatedChains: a set intersection, each identifier once
RECURSIVE RepeatedChainsDistinct(_, _)
RepeatedChainsDistinct(testing, training) ==
    IF testing = <<>> THEN <<>>
    ELSE LET rest == RepeatedChainsDistinct(Tail(testing), training)
         IN  IF In(Head(testing), training) /\ ~In(Head(testing), rest)
             THEN <<Head(testing)>> \o rest
             ELSE rest

\* [x for x in testing_chains if x in training_chains]
RECURSIVE RepeatedChains(_, _)
RepeatedChains(testing, training) ==
    IF testing = <<>> THEN <<>>
    ELSE IF In(Head(testing), training)
         THEN <<Head(testing)>> \o RepeatedChains(Tail(testing), training)
         ELSE RepeatedChains(Tail(testing), training)

\* the chains printed by: for chain in testing_chains: if chain not in repeated_chains
RECURSIVE NewBenchmarkingSet(_, _)
NewBenchmarkingSet(testing, repeated) ==
    IF testing = <<>> THEN <<>>
    ELSE IF ~In(Head(testing), repeated)
         THEN <<Head(testing)>> \o NewBenchmarkingSet(Tail(testing), repeated)
         ELSE NewBenchmarkingSet(Tail(testing), repeated)

\* the exception check_set ends in while reading its two files, or "none"
CheckSetReadError(train, test) ==
    IF HasBlankLine(train) THEN "IndexError"        \* split()[0] on a blank line
    ELSE IF train = <<>> THEN "IndexError"          \* training_chains[0] of an empty list
    ELSE IF HasBlankLine(test) THEN "IndexError"
    ELSE "none"

\* ---- modelled input alphabet -------------------------------------------
Tok1a2bA == <<"1", "a", "2", "b", "A">>
Tok1A2BA == <<"1", "A", "2", "B", "A">>
Tok3cdaB == <<"3", "c", "d", "a", "B">>
TokId    == <<"i", "d">>
TokCol   == <<"9", "9">>

\* the lines a list file is made of: plain identifiers, an identifier followed
\* by further columns, a column-header line, and a blank line
Lines == { <<Tok1a2bA>>, <<Tok1A2BA, TokCol>>, <<Tok3cdaB>>, <<TokId, TokCol>>, <<>> }

MaxTrainLines == 2
MaxTestLines == 3


\* the Compare variables while the Check_set command runs
CompareIdle ==
    /\ listing = <<>> /\ scores = <<>> /\ path_to_evoef = FALSE
    /\ include = [given |-> FALSE, lines |-> <<>>]
    /\ pdbs = [given |-> FALSE, dict |-> <<>>]
    /\ torsions = FALSE /\ accuracy = <<>> /\ calls = <<>> /\ model = <<>>
    /\ filtered_models = <<>> /\ filtered_labels = <<>>

\* a Check_set invocation on two existing list files, before it runs
InitCheckSet ==
    /\ pc = "ready" /\ error = "none"
    /\ training_set \in SeqsUpTo(Lines, MaxTrainLines)
    /\ dataset \in SeqsUpTo(Lines, MaxTestLines)
    /\ training_chains = <<>> /\ testing_chains = <<>> /\ repeated_chains = <<>>
    /\ report = "none" /\ printed_count = 0
    /\ printed_repeated = <<>> /\ printed_new_set = <<>>
    /\ CompareIdle

\* the whole Check_set command
check_set ==
    /\ pc = "ready"
    /\ LET err      == CheckSetReadError(training_set, dataset)
           training == ReadTrainingSet(training_set)
           testing  == ReadDataset(dataset)
           repeated == RepeatedChains(testing, training)
       IN  IF err # "none"
           THEN /\ pc' = "error" /\ error' = err
                /\ UNCHANGED <<training_chains, testing_chains, repeated_chains,
                               report, printed_count, printed_repeated,
                               printed_new_set>>
           ELSE /\ pc' = "done" /\ error' = "none"
                /\ training_chains' = training
                /\ testing_chains' = testing
                /\ repeated_chains' = repeated
                /\ IF Len(repeated) > 0
                   THEN /\ report' = "overlap"
                        /\ printed_count' = Len(repeated)
                        /\ printed_repeated' = repeated
                        /\ printed_new_set' = NewBenchmarkingSet(testing, repeated)
                   ELSE /\ report' = "no_overlap"
                        /\ UNCHANGED <<printed_count, printed_repeated, printed_new_set>>
    /\ UNCHANGED <<training_set, dataset, compare_vars>>

NextCheckSet == check_set

SpecCheckSet == InitCheckSet /\ [][NextCheckSet]_vars

(***************************************************************************)
(* Compare                                                                 *)
(***************************************************************************)
\* the most models a comparison plot holds
MaxCompared == 8

\* the ranked models kept next to EvoEF2
MaxComparedWithEvoEF == 7

\* base names of the prediction files, in Python's string order
Stems == <<"M01", "M02", "M03", "M04", "M05", "M06", "M07", "M08", "M09",
           "M10", "M11", "M12">>

\* the file name "<stem>.csv"
Csv(i) == <<Stems[i], "csv">>

\* the label "EvoEF2" (also the name of the EvoEF2 summary under path_to_models)
EvoEF2 == <<"EvoEF2">>

\* position of a prediction file's name in Python's string order
Rank(name) == CHOOSE i \in 1..Len(Stems) : Stems[i] = name[1]

\* name.split(".")[-1] == "csv"
IsCsv(name) == name[Len(name)] = "csv"

\* get_cath.load_prediction_matrix(..., Path(path_to_models) / name)
Matrix(name) == [kind |-> "matrix", of |-> name]

\* get_cath.load_prediction_sequence(df_with_sequence, path_to_evoef)
evo_ef2 == [kind |-> "sequence", of |-> EvoEF2]

\* the keys of list_of_models, in insertion order
ListOfModels(names) == SelectSeq(names, IsCsv)

\* one request to the visualization module: the function called, the prediction
\* data and labels passed, and the output it addresses under path_to_models
Call(fn, data, labels, name, protein) ==
    [fn |-> fn, data |-> data, labels |-> labels, name |-> name, protein |-> protein]

\* the show_accuracy calls of one model: one per protein listed against it
ShowAccuracyCalls(m, p) ==
    IF p.given /\ m \in DOMAIN p.dict
    THEN [i \in 1..Len(p.dict[m]) |->
             Call("show_accuracy", <<Matrix(m)>>, <<>>, m, p.dict[m][i])]
    ELSE <<>>

\* the ramachandran_plot call of one model
RamachandranCall(m) == Call("ramachandran_plot", <<Matrix(m)>>, <<>>, m, "")

\* the requests of one iteration of the per-model loop
ModelCalls(m, p, tors) ==
    ShowAccuracyCalls(m, p)
      \o <<Call("make_model_summary", <<Matrix(m)>>, <<>>, m, "")>>
      \o (IF tors THEN <<RamachandranCall(m)>> ELSE <<>>)

\* the requests of the whole per-model loop
RECURSIVE LoopCalls(_, _, _)
LoopCalls(pool, p, tors) ==
    IF pool = <<>> THEN <<>>
    ELSE ModelCalls(Head(pool), p, tors) \o LoopCalls(Tail(pool), p, tors)

\* the accuracy list the loop accumulates: [score, model] per model
LoopAccuracy(pool, sc) == [i \in 1..Len(pool) |-> <<sc[pool[i]], pool[i]>>]

\* the value of the loop variable after the loop (<<>>: never bound)
LoopVariable(pool) == IF pool = <<>> THEN <<>> ELSE pool[Len(pool)]

\* the ramachandran_plot call for the EvoEF2 predictions
EvoEFRamachandranCall(m) == Call("ramachandran_plot", <<evo_ef2>>, <<>>, m, "")

\* the requests made for the EvoEF2 predictions after the loop
EvoEFCalls(evoef, tors, m) ==
    IF ~evoef THEN <<>>
    ELSE <<Call("make_model_summary", <<evo_ef2>>, <<>>, EvoEF2, "")>>
           \o (IF tors /\ m # <<>> THEN <<EvoEFRamachandranCall(m)>> ELSE <<>>)

\* Python's order on [score, name] lists
RecordLess(a, b) == a[1] < b[1] \/ (a[1] = b[1] /\ Rank(a[2]) < Rank(b[2]))

RECURSIVE Insert(_, _)
Insert(x, s) ==
    IF s = <<>> THEN <<x>>
    ELSE IF RecordLess(x, Head(s)) THEN <<x>> \o s
    ELSE <<Head(s)>> \o Insert(x, Tail(s))

\* sorted(accuracy)
RECURSIVE Sorted(_)
Sorted(s) == IF s = <<>> THEN <<>> ELSE Insert(Head(s), Sorted(Tail(s)))

\* variant of PickCount: no slot is kept for EvoEF2
PickCountNoReserve(evoef) == MaxCompared

\* how many ranked models are picked
PickCount(evoef) == IF evoef THEN MaxComparedWithEvoEF ELSE MaxCompared

\* filtered_labels before the --include file is applied
PickLabels(acc, evoef) ==
    LET best == LastN(acc, PickCount(evoef))
        picked == [i \in 1..Len(best) |-> best[i][2]]
    IN  IF evoef THEN Append(picked, EvoEF2) ELSE picked

\* filtered_models before the --include file is applied
PickModels(acc, evoef) ==
    LET best == LastN(acc, PickCount(evoef))
        picked == [i \in 1..Len(best) |-> Matrix(best[i][2])]
    IN  IF evoef THEN Append(picked, evo_ef2) ELSE picked

\* variant of NeedsInclude: the membership test is left out
NeedsIncludeAlways(model_name, labels) == TRUE

\* whether the include loop writes model_name into the selection
NeedsInclude(model_name, labels) == ~In(model_name, labels)

\* variant of IncludeStep: the entry is written one position too far
IncludeStepShifted(sel, index, model_name, pool) ==
    IF sel.error # "none" THEN sel
    ELSE IF In(model_name, sel.labels) THEN sel
    ELSE IF ~In(model_name, pool) THEN [sel EXCEPT !.error = "KeyError"]
    ELSE IF index + 1 >= Len(sel.models) THEN [sel EXCEPT !.error = "IndexError"]
    ELSE [sel EXCEPT !.models[index + 2] = Matrix(model_name),
                     !.labels[index + 2] = model_name]

\* one iteration of the include loop at (0-based) index, on the selection sel
IncludeStep(sel, index, model_name, pool) ==
    IF sel.error # "none" THEN sel
    ELSE IF ~NeedsInclude(model_name, sel.labels) THEN sel
    ELSE IF ~In(model_name, pool) THEN [sel EXCEPT !.error = "KeyError"]
    ELSE IF index >= Len(sel.models) THEN [sel EXCEPT !.error = "IndexError"]
    ELSE [sel EXCEPT !.models[index + 1] = Matrix(model_name),
                     !.labels[index + 1] = model_name]

\* the selection after the first k iterations of the include loop
RECURSIVE IncludeLoop(_, _, _, _)
IncludeLoop(sel, models_to_include, k, pool) ==
    IF k = 0 THEN sel
    ELSE IncludeStep(IncludeLoop(sel, models_to_include, k - 1, pool),
                     k - 1, models_to_include[k], pool)

\* variants of IncludeAllowed: the limit off by one, either way
IncludeAllowedOneMore(models_to_include) == Len(models_to_include) <= MaxCompared + 1

IncludeAllowedOneLess(models_to_include) == Len(models_to_include) < MaxCompared

\* whether the include list is short enough to be applied
IncludeAllowed(models_to_include) == Len(models_to_include) <= MaxCompared

\* lines 235-255, on the sorted accuracy list: the selection handed to
\* compare_model_accuracy, or the error
Select(ranked, pool, evoef, inc) ==
    LET base == [models |-> PickModels(ranked, evoef),
                 labels |-> PickLabels(ranked, evoef),
                 error |-> "none"]
    IN  IF ~inc.given THEN base
        ELSE IF IncludeAllowed(inc.lines)
             THEN IncludeLoop(base, inc.lines, Len(inc.lines), pool)
             ELSE [base EXCEPT !.error = "ValueError"]

\* the compare_model_accuracy call
CompareCall(sel) == Call("compare_model_accuracy", sel.models, sel.labels, <<>>, "")

\* variant of FinalCalls: the comparison is requested before the length test
FinalCallsUnchecked(sel) == <<CompareCall(sel)>>

\* the requests issued once the selection is made
FinalCalls(sel) == IF sel.error = "none" THEN <<CompareCall(sel)>> ELSE <<>>

\* the whole Compare command
compare_models ==
    /\ pc = "ready"
    /\ LET pool == ListOfModels(listing)
           last == LoopVariable(pool)
           acc  == LoopAccuracy(pool, scores)
           ranked == Sorted(acc)
           sel  == Select(ranked, pool, path_to_evoef, include)
           made == LoopCalls(pool, pdbs, torsions)
                     \o EvoEFCalls(path_to_evoef, torsions, last)
       IN  /\ model' = last
           /\ IF path_to_evoef /\ torsions /\ last = <<>>
              THEN \* line 230 reads the loop variable, which was never bound
                   /\ pc' = "error" /\ error' = "UnboundLocalError"
                   /\ accuracy' = acc
                   /\ calls' = made
                   /\ UNCHANGED <<filtered_models, filtered_labels>>
              ELSE /\ pc' = IF sel.error = "none" THEN "done" ELSE "error"
                   /\ error' = sel.error
                   /\ accuracy' = ranked
                   /\ calls' = made \o FinalCalls(sel)
                   /\ filtered_models' = sel.models
                   /\ filtered_labels' = sel.labels
    /\ UNCHANGED <<listing, scores, path_to_evoef, include, pdbs, torsions, check_vars>>

(***************************************************************************)
(* Compare invocations                                                     *)
(***************************************************************************)
MaxPool == 10
MaxInclude == 9

Reverse(s) == [i \in 1..Len(s) |-> s[Len(s) + 1 - i]]

\* n prediction files
PoolNames(n) == [i \in 1..n |-> Csv(i)]

\* entries of path_to_models that are no prediction files: an EvoEF2 directory
\* and a structure written by an earlier show_accuracy call
Extras == <<EvoEF2, <<"M01", "csv_1abc", "pdb">>>>

\* os.listdir returns the entries in arbitrary order
Listings(n) == {PoolNames(n) \o Extras, Extras \o Reverse(PoolNames(n))}

\* accuracies, in percent
ExampleAcc == <<90, 70, 95, 50, 60, 80, 99, 30, 85, 40, 75, 65>>
AccLevels == {40, 80}

\* score assignments of a fixed shape: the accuracies of the documented example,
\* ascending and descending in the name order, and all tied
ScoreShapes(names) ==
    { [m \in names |-> ExampleAcc[Rank(m)]],
      [m \in names |-> 10 + 5 * Rank(m)],
      [m \in names |-> 90 - 5 * Rank(m)],
      [m \in names |-> 50] }

\* every assignment of the accuracy levels, and the fixed shapes
AllScores(names) == [names -> AccLevels] \cup ScoreShapes(names)

\* the --pdbs file: absent, or listing two structures against M01.csv and one
\* against a name that is no prediction file
PdbFiles ==
    { [given |-> FALSE, dict |-> <<>>],
      [given |-> TRUE,
       dict |-> (Csv(1) :> <<"1abc", "2xyz">>) @@ (<<"M02">> :> <<"1abc">>)] }

\* --include lists: pool names in ascending and in descending order, repeated
\* names, names without the .csv extension, and the EvoEF2 label
IncludeBases ==
    { [i \in 1..MaxInclude |-> Csv(i)],
      [i \in 1..MaxInclude |-> Csv(MaxInclude + 2 - i)],
      [i \in 1..MaxInclude |-> Csv((i + 1) \div 2)],
      [i \in 1..MaxInclude |-> IF i % 3 = 2 THEN <<Stems[i]>> ELSE Csv(i)],
      [i \in 1..MaxInclude |-> IF i = 1 THEN EvoEF2 ELSE Csv(i)] }

NoInclude == [given |-> FALSE, lines |-> <<>>]

IncludeFiles ==
    {NoInclude} \cup
    { [given |-> TRUE, lines |-> SubSeq(b, 1, k)] : b \in IncludeBases, k \in 0..MaxInclude }

\* the Check_set variables while the Compare command runs
CheckSetIdle ==
    /\ training_set = <<>> /\ dataset = <<>>
    /\ training_chains = <<>> /\ testing_chains = <<>> /\ repeated_chains = <<>>
    /\ report = "none" /\ printed_count = 0
    /\ printed_repeated = <<>> /\ printed_new_set = <<>>

\* the Compare locals before the command runs
CompareStart ==
    /\ pc = "ready" /\ error = "none"
    /\ accuracy = <<>> /\ calls = <<>> /\ model = <<>>
    /\ filtered_models = <<>> /\ filtered_labels = <<>>
    /\ CheckSetIdle

\* a Compare invocation, before it runs
Init ==
    /\ CompareStart
    /\ \E n \in 0..MaxPool :
          /\ listing \in Listings(n)
          /\ scores \in ScoreShapes(Range(PoolNames(n)))
    /\ path_to_evoef \in BOOLEAN
    /\ torsions \in BOOLEAN
    /\ pdbs \in PdbFiles
    /\ include \in IncludeFiles

Next == compare_models

Spec == Init /\ [][Next]_vars

\* Compare invocations on a pool of at least MaxCompared models, without
\* EvoEF2 and without an --include file, under every assignment of the levels
InitTop8 ==
    /\ CompareStart
    /\ \E n \in MaxCompared..MaxPool :
          /\ listing \in Listings(n)
          /\ scores \in AllScores(Range(PoolNames(n)))
    /\ path_to_evoef = FALSE
    /\ torsions \in BOOLEAN
    /\ pdbs = [given |-> FALSE, dict |-> <<>>]
    /\ include = NoInclude

SpecTop8 == InitTop8 /\ [][Next]_vars

\* Compare invocations on a pool of MaxCompared + 2 models (and up to MaxPool),
\* without EvoEF2, with an --include file of three pool names: every triple
\* under the fixed score shapes, and, on MaxCompared + 2 models, every triple of
\* the first three names under every assignment of the levels
InitInclude3 ==
    /\ CompareStart
    /\ \E n \in (MaxCompared + 2)..MaxPool :
          /\ listing = PoolNames(n) \o Extras
          /\ \/ /\ scores \in ScoreShapes(Range(PoolNames(n)))
                /\ \E l \in [1..3 -> Range(PoolNames(n))] :
                      include = [given |-> TRUE, lines |-> l]
             \/ /\ n = MaxCompared + 2
                /\ scores \in [Range(PoolNames(n)) -> AccLevels]
                /\ \E l \in [1..3 -> Range(PoolNames(3))] :
                      include = [given |-> TRUE, lines |-> l]
    /\ path_to_evoef = FALSE
    /\ torsions = FALSE
    /\ pdbs = [given |-> FALSE, dict |-> <<>>]

SpecInclude3 == InitInclude3 /\ [][Next]_vars

(***************************************************************************)
(* State functions used by the properties                                  *)
(***************************************************************************)
\* the command has run (to completion or to an exception)
Ran == pc # "ready"

\* the model pool of the invocation
Pool == ListOfModels(listing)

\* the requests of one kind issued so far
CallsTo(fn) == SelectSeq(calls, LAMBDA c : c.fn = fn)

\* a selection was handed to compare_model_accuracy
Handed == CallsTo("compare_model_accuracy") # <<>>

\* the labels and the data of the selection handed over
HandedLabels == CallsTo("compare_model_accuracy")[1].labels
HandedModels == CallsTo("compare_model_accuracy")[1].data

\* lines 233-255 were reached
SelectReached == Ran /\ error # "UnboundLocalError"

NoDuplicates(s) == \A i, j \in 1..Len(s) : s[i] = s[j] => i = j

\* the selection before the --include file is applied
BaseSelection ==
    [models |-> PickModels(Sorted(LoopAccuracy(Pool, scores)), path_to_evoef),
     labels |-> PickLabels(Sorted(LoopAccuracy(Pool, scores)), path_to_evoef),
     error |-> "none"]

\* the labels selected when the k-th line (1-based) of --include has its turn
LabelsAtTurn(k) == IncludeLoop(BaseSelection, include.lines, k - 1, Pool).labels

(***************************************************************************)
(* Properties of Check_set                                                 *)
(***************************************************************************)
\* the entries of s that are (keep = TRUE) or are not (keep = FALSE) in the set S
Restrict(s, S, keep) == SelectSeq(s, LAMBDA x : (x \in S) = keep)

\* C1: with A the training ChainSet and B the testing ChainSet, the overlap is
\* the entries of B that are members of A, in B's order; the clean set is B
\* without every entry equal to an overlap element; clean shares no element
\* with A, overlap(A, clean) is empty, and clean with overlap is B as a set.
\* The clean set is printed when the overlap is not empty; when it is empty
\* the no-overlap report stands for clean = B.
C1_Resolve ==
    pc = "done" =>
        LET A == Range(training_chains)
            B == testing_chains
            clean == IF report = "overlap" THEN printed_new_set ELSE B
        IN  /\ report \in {"overlap", "no_overlap"}
            /\ report = "overlap" <=> repeated_chains # <<>>
            /\ repeated_chains = Restrict(B, A, TRUE)
            /\ report = "overlap" =>
                  /\ printed_repeated = repeated_chains
                  /\ printed_count = Len(repeated_chains)
            /\ clean = Restrict(B, Range(repeated_chains), FALSE)
            /\ Range(clean) \cap A = {}
            /\ Restrict(clean, A, TRUE) = <<>>
            /\ Range(clean) \cup Range(repeated_chains) = Range(B)

\* C1 witness: an overlap report with a repeated overlapping identifier and a
\* non-empty clean set
C1_Witness ==
    /\ pc = "done" /\ report = "overlap"
    /\ Len(printed_repeated) = 2 /\ printed_repeated[1] = printed_repeated[2]
    /\ Len(printed_new_set) = 1
    /\ Len(training_chains) = 2

\* the normalizer of the specification: the first line is dropped when its
\* first token is not IdLen long, every other line is its uppercased first token
HeaderAwareNormalizer(lines) ==
    LET kept == IF lines # <<>> /\ Len(lines[1][1]) # IdLen THEN Tail(lines) ELSE lines
    IN  [i \in 1..Len(kept) |-> Upper(kept[i][1])]

\* every line kept as its uppercased first token, none dropped
PlainNormalizer(lines) == [i \in 1..Len(lines) |-> Upper(lines[i][1])]

\* C9 as stated: both lists read by Check_set, the training list and the
\* testing list, lose exactly their first line when its first token is not
\* IdLen long, and every other line is kept as its uppercased first token.
C9_BothListsHeaderAware ==
    pc = "done" =>
        /\ training_chains = HeaderAwareNormalizer(training_set)
        /\ testing_chains = HeaderAwareNormalizer(dataset)

\* C9 amended: the header rule is applied to the training list only; the
\* testing list never loses a line, and every kept line of either list is its
\* uppercased first token.
C9_HeaderRuleTrainingOnly ==
    pc = "done" =>
        /\ training_chains = HeaderAwareNormalizer(training_set)
        /\ testing_chains = PlainNormalizer(dataset)
        /\ Len(testing_chains) = Len(dataset)
        /\ Len(training_chains) =
              Len(training_set) - (IF Len(training_set[1][1]) # IdLen THEN 1 ELSE 0)

\* C9 witness: both files start with a header line; the training header is
\* dropped and the testing header is kept
C9_Witness ==
    /\ pc = "done"
    /\ Len(training_set) = 2 /\ Len(training_set[1][1]) # IdLen
    /\ Len(training_chains) = 1
    /\ Len(dataset) = 2 /\ Len(dataset[1][1]) # IdLen
    /\ Len(testing_chains) = 2 /\ testing_chains[1] = <<"I", "D">>

(***************************************************************************)
(* Properties of Compare: the selection                                    *)
(***************************************************************************)
\* the invocation ranks its pool alone: no EvoEF2, no --include file
RankedOnly == ~path_to_evoef /\ ~include.given

\* s is ordered by descending (dir = -1) or ascending (dir = 1) accuracy
OrderedByAccuracy(s, dir) ==
    \A i, j \in 1..Len(s) : i < j => dir * scores[s[i]] <= dir * scores[s[j]]

\* the labels s are MaxCompared pool models none of which scores below a pool
\* model left out
TopOfPool(s) ==
    /\ Len(s) = MaxCompared
    /\ NoDuplicates(s)
    /\ Range(s) \subseteq Range(Pool)
    /\ \A m \in Range(s), o \in Range(Pool) \ Range(s) : scores[o] <= scores[m]

\* the invocation of the documented example: M1..M9 with its accuracies
ExampleRun ==
    /\ Range(Pool) = Range(PoolNames(9))
    /\ \A m \in Range(Pool) : scores[m] = ExampleAcc[Rank(m)]

\* C2 as stated: without EvoEF2 and without --include, on a pool of at least
\* MaxCompared models, the selection handed over has exactly MaxCompared
\* entries, is sorted descending by accuracy and is the pool's top by accuracy
\* (M7, M3, M9, M1, M6, M2, M5, M4 in the documented example).
C2_Top8Descending ==
    (pc = "done" /\ RankedOnly /\ Len(Pool) >= MaxCompared) =>
        /\ Handed
        /\ TopOfPool(HandedLabels)
        /\ OrderedByAccuracy(HandedLabels, -1)
        /\ ExampleRun =>
              HandedLabels = <<Csv(7), Csv(3), Csv(9), Csv(1), Csv(6), Csv(2), Csv(5), Csv(4)>>

\* C2 amended: the selection has exactly MaxCompared entries, is the pool's
\* top by accuracy, and is sorted ascending by accuracy, equal accuracies in
\* ascending name order (M4, M5, M2, M6, M9, M1, M3, M7 in the example).
C2_Top8Ascending ==
    (pc = "done" /\ RankedOnly /\ Len(Pool) >= MaxCompared) =>
        /\ Handed
        /\ TopOfPool(HandedLabels)
        /\ OrderedByAccuracy(HandedLabels, 1)
        /\ \A i \in 1..(MaxCompared - 1) :
              scores[HandedLabels[i]] = scores[HandedLabels[i + 1]]
                  => Rank(HandedLabels[i]) < Rank(HandedLabels[i + 1])
        /\ HandedModels = [i \in 1..MaxCompared |-> Matrix(HandedLabels[i])]
        /\ ExampleRun =>
              HandedLabels = <<Csv(4), Csv(5), Csv(2), Csv(6), Csv(9), Csv(1), Csv(3), Csv(7)>>

\* C2 witness: the documented example ran and left out only M8
C2_Witness ==
    /\ pc = "done" /\ RankedOnly /\ ExampleRun /\ Handed
    /\ Range(HandedLabels) = Range(Pool) \ {Csv(8)}
    /\ HandedLabels[MaxCompared] = Csv(7)

\* the --include file is absent or has at most k lines
IncludeAtMost(k) == ~include.given \/ Len(include.lines) <= k

Min(a, b) == IF a < b THEN a ELSE b

ThreeIncluded ==
    /\ ~path_to_evoef /\ include.given /\ Len(include.lines) = 3
    /\ Len(Pool) = MaxCompared + 2
    /\ Range(include.lines) \subseteq Range(Pool)

IncludeTooLong == include.given /\ Len(include.lines) > MaxCompared

\* how many requests to fn carried the prediction data d
CountCalls(fn, d) == Len(SelectSeq(calls, LAMBDA c : c.fn = fn /\ c.data = <<d>>))

\* C5: when the --include list has more than MaxCompared names, the selection
\* step ends in the configuration error (ValueError) and no selection is
\* handed to compare_model_accuracy.
C5_TooManyIncluded ==
    (Ran /\ IncludeTooLong) =>
        /\ pc = "error"
        /\ ~Handed
        /\ SelectReached => error = "ValueError"

\* C5 witness: an --include list of MaxCompared + 1 names, all of them already
\* selected, ended the command in the configuration error
C5_Witness ==
    /\ pc = "error" /\ error = "ValueError" /\ ~Handed
    /\ Len(include.lines) = MaxCompared + 1
    /\ Range(include.lines) \subseteq Range(filtered_labels)

\* C6 as stated: the configuration error is raised before any visualization
\* request of the invocation is issued.
C6_ErrorBeforeAnyRequest ==
    error = "ValueError" => calls = <<>>

\* C6 amended: the configuration error is raised before the comparison
\* request, which is never issued, and after the requests for the single
\* models: by then every pool model has its summary (and its torsion request,
\* if enabled, and its per-structure requests), and EvoEF2, if supplied, has
\* its summary.
C6_ErrorBeforeComparisonOnly ==
    error = "ValueError" =>
        /\ ~Handed
        /\ \A m \in Range(Pool) :
              /\ CountCalls("make_model_summary", Matrix(m)) = 1
              /\ CountCalls("ramachandran_plot", Matrix(m)) = (IF torsions THEN 1 ELSE 0)
              /\ CountCalls("show_accuracy", Matrix(m)) =
                    (IF pdbs.given /\ m \in DOMAIN pdbs.dict THEN Len(pdbs.dict[m]) ELSE 0)
        /\ CountCalls("make_model_summary", evo_ef2) = (IF path_to_evoef THEN 1 ELSE 0)

\* C6 witness: the configuration error came after per-structure, summary,
\* torsion and EvoEF2 summary requests
C6_Witness ==
    /\ error = "ValueError"
    /\ \A fn \in {"show_accuracy", "make_model_summary", "ramachandran_plot"} :
          CallsTo(fn) # <<>>
    /\ CountCalls("make_model_summary", evo_ef2) = 1

\* C7 as stated: for every pool, with or without EvoEF2, and every --include
\* list of at most MaxCompared names, the selection step completes and hands
\* over a selection.
C7_NoOtherError ==
    (SelectReached /\ IncludeAtMost(MaxCompared)) => (pc = "done" /\ Handed)

\* C7 amended: the selection step completes and hands over a selection for
\* every --include list of at most MaxCompared names that are all pool models;
\* the only other way it ends is the KeyError of a name that is no pool model
\* and not selected at its turn.
C7_NoOtherErrorForPoolNames ==
    /\ (SelectReached /\ IncludeAtMost(MaxCompared)
          /\ Range(include.lines) \subseteq Range(Pool)) => (pc = "done" /\ Handed)
    /\ (SelectReached /\ IncludeAtMost(MaxCompared) /\ pc = "error") =>
          /\ error = "KeyError"
          /\ \E k \in 1..Len(include.lines) :
                /\ ~In(include.lines[k], Pool)
                /\ ~In(include.lines[k], LabelsAtTurn(k))

\* C7 witness: an --include list of MaxCompared pool names was applied, the
\* last of them over EvoEF2
C7_Witness ==
    /\ pc = "done" /\ Handed /\ path_to_evoef /\ include.given
    /\ Len(include.lines) = MaxCompared
    /\ Range(include.lines) \subseteq Range(Pool)
    /\ HandedLabels = include.lines
    /\ BaseSelection.labels[MaxCompared] = EvoEF2

\* C8: every selection handed to compare_model_accuracy has at most
\* MaxCompared entries and no label twice (and carries, entry by entry, the
\* predictions of its labels).
C8_SelectionCapped ==
    Handed =>
        /\ Len(CallsTo("compare_model_accuracy")) = 1
        /\ Len(HandedLabels) <= MaxCompared
        /\ NoDuplicates(HandedLabels)
        /\ Len(HandedModels) = Len(HandedLabels)
        /\ \A i \in 1..Len(HandedLabels) :
              HandedModels[i] =
                  (IF HandedLabels[i] = EvoEF2 THEN evo_ef2 ELSE Matrix(HandedLabels[i]))

\* C8 witness: a full selection with EvoEF2 was handed over after an --include
\* list with a repeated name, one line of which was written and one skipped
C8_Witness ==
    /\ Handed /\ path_to_evoef /\ include.given
    /\ Len(HandedLabels) = MaxCompared
    /\ Len(include.lines) >= 2 /\ include.lines[1] = include.lines[2]
    /\ HandedLabels[1] = include.lines[1]
    /\ BaseSelection.labels[1] # include.lines[1]
    /\ HandedLabels[2] # include.lines[2]

\* C10 as stated: with --torsions and EvoEF2 supplied, for every pool (the
\* empty pool too), every pool model and EvoEF2 each get exactly one torsion
\* request, and the request for EvoEF2 addresses the EvoEF2 output, which no
\* pool model's torsion request addresses.
C10_ReferenceTorsionOwnTarget ==
    (Ran /\ torsions /\ path_to_evoef) =>
        /\ \A m \in Range(Pool) : CountCalls("ramachandran_plot", Matrix(m)) = 1
        /\ CountCalls("ramachandran_plot", evo_ef2) = 1
        /\ \A i, j \in 1..Len(calls) :
              (/\ calls[i].fn = "ramachandran_plot" /\ calls[i].data = <<evo_ef2>>
               /\ calls[j].fn = "ramachandran_plot" /\ calls[j].data # <<evo_ef2>>)
                  => (calls[i].name = EvoEF2 /\ calls[i].name # calls[j].name)

=============================================================================
